---------------------------- MODULE Spec2Model ----------------------------
(***************************************************************************)
(* A model of c9: storage nodes (c9.buckets.Bucket), the registry          *)
(* (c9.buckets.api.Subject), the manager (c9.manager.Manager) and its      *)
(* upload / download handlers, over the Connection middleware.             *)
(*                                                                         *)
(* Byte strings are modelled as prefixes of named byte streams: the        *)
(* record [data |-> d, len |-> n] is the first n bytes of stream d.  Two   *)
(* byte strings are equal iff they are the same prefix of the same stream. *)
(* Text messages are modelled as their sequence of space separated fields; *)
(* decimal numbers inside them are sequences of digits.                    *)
(* Every send() is taken to arrive as one message; a receive() returns at  *)
(* most CHUNK_SIZE bytes of it.                                            *)
(***************************************************************************)
EXTENDS Integers, Sequences, FiniteSets, TLC

\* ------------------------------------------------------------ constants
CHUNK_SIZE == 1024

DEFAULT_SPACE == 250000000

REGION == "latin-america"

Regions ==
  {"us-east", "us-west", "eu", "asia", "latin-america", "africa", "australia"}

DISTANCE_MATRIX ==
  [r \in Regions |->
     CASE r = "us-east" ->
            ("us-west" :> 2500 @@ "eu" :> 4000 @@ "asia" :> 7000 @@
             "latin-america" :> 1500 @@ "africa" :> 6000 @@ "australia" :> 9000)
       [] r = "us-west" ->
            ("us-east" :> 2500 @@ "eu" :> 3500 @@ "asia" :> 6500 @@
             "latin-america" :> 2000 @@ "africa" :> 5500 @@ "australia" :> 8500)
       [] r = "eu" ->
            ("us-east" :> 4000 @@ "us-west" :> 3500 @@ "asia" :> 6000 @@
             "latin-america" :> 5000 @@ "africa" :> 2000 @@ "australia" :> 8000)
       [] r = "asia" ->
            ("us-east" :> 7000 @@ "us-west" :> 6500 @@ "eu" :> 6000 @@
             "latin-america" :> 11000 @@ "africa" :> 5000 @@ "australia" :> 3000)
       [] r = "latin-america" ->
            ("us-east" :> 1500 @@ "us-west" :> 2000 @@ "eu" :> 5000 @@
             "asia" :> 11000 @@ "africa" :> 4000 @@ "australia" :> 12000)
       [] r = "africa" ->
            ("us-east" :> 6000 @@ "us-west" :> 5500 @@ "eu" :> 2000 @@
             "asia" :> 5000 @@ "latin-america" :> 4000 @@ "australia" :> 7000)
       [] r = "australia" ->
            ("us-east" :> 9000 @@ "us-west" :> 8500 @@ "eu" :> 8000 @@
             "asia" :> 3000 @@ "latin-america" :> 12000 @@ "africa" :> 7000)]

\* --------------------------------------------------------------- bounds
\* number of commands outside clients send to a storage node in one run
MaxCmds == 3

\* a nearly full storage node has 1 .. MaxLow bytes left
MaxLow == 2

\* short payloads have 1 .. SmallLen bytes
SmallLen == 2

\* number of connections the manager accepts in one run
MaxRequests == 2

\* number of connections the manager accepts in one run of the placement
MaxPlaced == 1

\* number of commands outside clients send while the nodes register
MaxOutside == 2

\* number of commands outside clients send to the nodes the manager uses
MaxFaults == 1

\* number of unregister commands sent while the manager serves requests
MaxChurn == 1

\* number of commands clients send to the nodes whose updates are followed
MaxLive == 2

\* number of commands clients send to the nodes that share a base directory
MaxShared == 2

\* ------------------------------------------------------- the population
Buckets == {"b1", "b2", "b3"}

Managers == {"m1", "m2"}

FileNames == {"report.txt", "notes.txt"}

Datas == {"x", "y"}

Lens == (1 .. SmallLen) \cup {CHUNK_SIZE + 1}

\* the byte strings a client may send as a payload
Payloads == [data : Datas, len : Lens]

Min(a, b) == IF a <= b THEN a ELSE b

\* --------------------------------------------------- lib/middleware.py
\* Connection.receive: socket.recv(CHUNK_SIZE) of a message that was sent
receive(message) == [message EXCEPT !.len = Min(message.len, CHUNK_SIZE)]

\* str(n) of a non-negative integer, as its digits
RECURSIVE str(_)
str(n) == IF n < 10 THEN <<n>> ELSE Append(str(n \div 10), n % 10)

\* int(s) of a digit sequence
RECURSIVE int(_)
int(s) ==
  IF Len(s) = 0 THEN 0
  ELSE 10 * int(SubSeq(s, 1, Len(s) - 1)) + s[Len(s)]

\* ---------------------------------------------- c9/buckets/__init__.py
BucketHost(b) == "localhost"

BucketPort(b) == CASE b = "b1" -> 3001 [] b = "b2" -> 3002 [] OTHER -> 3003

BucketPath(b) == <<".data", b>>

NoFiles == [f \in FileNames |-> <<>>]

FreshSpec ==
  [files_count |-> 0, available_space |-> DEFAULT_SPACE, used_space |-> 0]

\* A node that served DEFAULT_SPACE \div CHUNK_SIZE full-chunk PUTs of one
\* name, one PUT that left a bytes, one 1-byte PUT and then the DELETE of that
\* name: the directory is empty again and a bytes are available.
LowSpec(a) ==
  [files_count |-> (DEFAULT_SPACE \div CHUNK_SIZE) + 2,
   available_space |-> a,
   used_space |-> 1]

spec_message(spec) ==
  <<str(spec.files_count), str(spec.available_space), str(spec.used_space)>>

exists(files, filename) == files[filename] # <<>>

RECURSIVE SumSizes(_, _)
SumSizes(files, names) ==
  IF names = {} THEN 0
  ELSE LET f == CHOOSE x \in names : TRUE
       IN (IF exists(files, f) THEN files[f][1].len ELSE 0)
          + SumSizes(files, names \ {f})

get_directory_size(files) == SumSizes(files, FileNames)

\* what a command handler leaves behind: the directory, the spec, the
\* status it returns ("EXCEPTION" when it raises) and what it sent
Outcome(files, spec, status, sent) ==
  [files |-> files, spec |-> spec, status |-> status, sent |-> sent]

Raised(files, spec) == Outcome(files, spec, "EXCEPTION", <<>>)

handle_get(files, spec, args) ==
  IF Len(args) = 0 THEN Raised(files, spec)
  ELSE LET filename == args[1] IN
       IF exists(files, filename)
       THEN LET content == files[filename][1] IN
            Outcome(files, spec, "OK",
                    <<"OK", <<filename, str(content.len)>>, content>>)
       ELSE Outcome(files, spec, "NOT_FOUND", <<"NOT_FOUND">>)

\* handle_put that forgets to take the payload off available_space
handle_put_keeps_space(files, spec, args, payload) ==
  IF Len(args) = 0 THEN Raised(files, spec)
  ELSE LET filename == args[1]
           content == receive(payload)
       IN IF content.len > spec.available_space
          THEN Outcome(files, spec, "INSUFFICIENT_SPACE", <<"INSUFFICIENT_SPACE">>)
          ELSE LET written == [files EXCEPT ![filename] = <<content>>] IN
               Outcome(written,
                       [files_count |-> spec.files_count + 1,
                        available_space |-> spec.available_space,
                        used_space |-> get_directory_size(written)],
                       "OK", <<"OK">>)

\* handle_put that also rejects a payload that fits exactly
handle_put_rejects_exact_fit(files, spec, args, payload) ==
  IF Len(args) = 0 THEN Raised(files, spec)
  ELSE LET filename == args[1]
           content == receive(payload)
       IN IF content.len >= spec.available_space
          THEN Outcome(files, spec, "INSUFFICIENT_SPACE", <<"INSUFFICIENT_SPACE">>)
          ELSE LET written == [files EXCEPT ![filename] = <<content>>] IN
               Outcome(written,
                       [files_count |-> spec.files_count + 1,
                        available_space |-> spec.available_space - content.len,
                        used_space |-> get_directory_size(written)],
                       "OK", <<"OK">>)

handle_put(files, spec, args, payload) ==
  IF Len(args) = 0 THEN Raised(files, spec)
  ELSE LET filename == args[1]
           content == receive(payload)
       IN IF content.len > spec.available_space
          THEN Outcome(files, spec, "INSUFFICIENT_SPACE", <<"INSUFFICIENT_SPACE">>)
          ELSE LET written == [files EXCEPT ![filename] = <<content>>] IN
               Outcome(written,
                       [files_count |-> spec.files_count + 1,
                        available_space |-> spec.available_space - content.len,
                        used_space |-> get_directory_size(written)],
                       "OK", <<"OK">>)

handle_delete(files, spec, args) ==
  IF Len(args) = 0 THEN Raised(files, spec)
  ELSE LET filename == args[1] IN
       IF exists(files, filename)
       THEN Outcome([files EXCEPT ![filename] = <<>>],
                    [spec EXCEPT !.available_space = @ + files[filename][1].len],
                    "OK", <<"OK">>)
       ELSE Outcome(files, spec, "NOT_FOUND", <<"NOT_FOUND">>)

handle_list(files, spec) ==
  Outcome(files, spec, "OK",
          <<"OK", {f \in FileNames : exists(files, f)}>>)

handle_spec(files, spec) ==
  Outcome(files, spec, "OK", <<"OK", spec_message(spec)>>)

\* str.lower() on the verbs clients send
lower(command) ==
  CASE command \in {"GET", "get", "Get"} -> "get"
    [] command \in {"PUT", "put"} -> "put"
    [] command \in {"DELETE", "delete"} -> "delete"
    [] command \in {"LIST", "list"} -> "list"
    [] command \in {"SPEC", "spec"} -> "spec"
    [] OTHER -> "frobnicate"

\* getattr(self, f"handle_{command.lower()}")(client, args) in Bucket.run
dispatch(files, spec, cmdline, payload) ==
  LET command == lower(Head(cmdline))
      args == Tail(cmdline)
  IN CASE command = "get" -> handle_get(files, spec, args)
       [] command = "put" -> handle_put(files, spec, args, payload)
       [] command = "delete" -> handle_delete(files, spec, args)
       [] command = "list" -> handle_list(files, spec)
       [] command = "spec" -> handle_spec(files, spec)
       [] OTHER -> Raised(files, spec)

\* the command lines outside clients send to a storage node
BucketCommands ==
  {<<v, f>> : v \in {"GET", "get", "DELETE"}, f \in FileNames}
  \cup {<<"PUT", f, str(p.len)>> : f \in FileNames, p \in Payloads}
  \cup {<<"LIST">>, <<"SPEC">>, <<"FROB", "x">>, <<"GET">>}


\* ------------------------------------------------------------- the state
VARIABLES
  bpc,        \* storage node: "absent", "starting", "serving", "updating",
              \*   "exited" (registration failed) or "crashed" (run() raised)
  bfiles,     \* storage node: its directory, filename -> <<content>> or <<>>
  bspec,      \* storage node: Bucket._spec
  bregion,    \* storage node: Bucket._region
  blog,       \* storage node: the last two commands of outside clients
  ncmd,       \* number of commands outside clients have sent, to storage
              \*   nodes and to the registry
  regpc,      \* registry: "accept", "fanout" or "dead" (listen() raised)
  regq,       \* registry: connections waiting to be accepted, oldest first
  regmsg,     \* registry: the command line of the connection being served
  regi,       \* registry: index in _observers of the next observer to call
  regsnap,    \* registry: _observers when the current command was received
  regcalls,   \* registry: the observer calls made for the current command
  observers,  \* registry: Subject._observers
  mcache,     \* manager: the keys of Manager._buckets, in insertion order
  mhandles,   \* manager: the Client object made for each id, <<>> if none
  nreq,       \* manager: number of connections its accept loop has accepted
  conn,       \* manager: the accepted connections
  thr         \* manager: the handler thread of each accepted connection;
              \*   seen_main and seen_backup keep the ids that had cached
              \*   room for the payload when the primary and the backup were
              \*   selected, and conn[k].prior the connections closed before
              \*   connection k was accepted

bucketvars == <<bpc, bfiles, bspec, bregion, blog, ncmd>>

regvars == <<regpc, regq, regmsg, regi, regsnap, regcalls, observers>>

cachevars == <<mcache, mhandles>>

mgrvars == <<nreq, conn, thr>>

vars == <<bucketvars, regvars, cachevars, mgrvars>>

\* -------------------------------------------------- c9/buckets/api.py
\* Client.__init__ followed by the spec setter, as Subject.listen does
Client(host, port, base_path, id, region, spec) ==
  [id |-> id, host |-> host, port |-> port, region |-> region,
   base_path |-> base_path, files |-> <<>>, spec |-> spec]

InCache(cache, id) == \E i \in 1 .. Len(cache) : cache[i] = id

\* ------------------------------------------------ c9/manager/__init__.py
\* Manager.registered: self._buckets[bucket.id] = bucket
registered(cache, handles, client) ==
  [cache |-> IF InCache(cache, client.id) THEN cache ELSE Append(cache, client.id),
   handles |-> [handles EXCEPT ![client.id] = <<client>>],
   raised |-> FALSE]

\* Manager.unregistered: self._buckets.pop(id, None)
unregistered(cache, handles, id) ==
  [cache |-> SelectSeq(cache, LAMBDA x : x # id),
   handles |-> handles,
   raised |-> FALSE]

\* an updated that sets the spec of the oldest handle, whatever the id
updated_oldest(cache, handles, id, spec) ==
  IF InCache(cache, id)
  THEN [cache |-> cache,
        handles |-> [handles EXCEPT ![Head(cache)] = <<[@[1] EXCEPT !.spec = spec]>>],
        raised |-> FALSE]
  ELSE [cache |-> cache, handles |-> handles, raised |-> TRUE]

\* Manager.updated: self._buckets[id].spec = spec (KeyError for an unknown id)
updated(cache, handles, id, spec) ==
  IF InCache(cache, id)
  THEN [cache |-> cache,
        handles |-> [handles EXCEPT ![id] = <<[@[1] EXCEPT !.spec = spec]>>],
        raised |-> FALSE]
  ELSE [cache |-> cache, handles |-> handles, raised |-> TRUE]

\* Manager.__init__: self._subject.subscribe(self)
subscribe(obs, observer) == Append(obs, observer)

Subscribed(obs, o) == \E i \in 1 .. Len(obs) : obs[i] = o

ManagerInit(o) ==
  /\ ~Subscribed(observers, o)
  /\ observers' = subscribe(observers, o)
  /\ UNCHANGED <<regpc, regq, regmsg, regi, regsnap, regcalls>>
  /\ UNCHANGED <<bucketvars, cachevars, mgrvars>>

\* ---------------------------------------------------- the storage node
\* the regions of the three nodes of the spec's scenario
ScenarioRegion(b) ==
  CASE b = "b1" -> "us-east" [] b = "b2" -> "eu" [] OTHER -> "asia"

register_message(b, region, spec) ==
  <<"register", b, BucketHost(b), str(BucketPort(b)), region,
    BucketPath(b)>> \o spec_message(spec)

update_message(b, spec) == <<"update", b>> \o spec_message(spec)

\* Bucket.__call__ that goes on to run() although register() raised
BucketRegister_serves_anyway(b) ==
  /\ bpc[b] = "starting"
  /\ bpc' = [bpc EXCEPT ![b] = "serving"]
  /\ regq' = IF regpc = "dead" THEN regq
             ELSE Append(regq, register_message(b, bregion[b], bspec[b]))
  /\ UNCHANGED <<bfiles, bspec, bregion, blog, ncmd>>
  /\ UNCHANGED <<regpc, regmsg, regi, regsnap, regcalls, observers>>
  /\ UNCHANGED <<cachevars, mgrvars>>

\* Bucket.__call__: register(), and run() only when it did not raise
BucketRegister(b) ==
  /\ bpc[b] = "starting"
  /\ IF regpc = "dead"
     THEN /\ bpc' = [bpc EXCEPT ![b] = "exited"]
          /\ UNCHANGED regq
     ELSE /\ bpc' = [bpc EXCEPT ![b] = "serving"]
          /\ regq' = Append(regq, register_message(b, bregion[b], bspec[b]))
  /\ UNCHANGED <<bfiles, bspec, bregion, blog, ncmd>>
  /\ UNCHANGED <<regpc, regmsg, regi, regsnap, regcalls, observers>>
  /\ UNCHANGED <<cachevars, mgrvars>>

\* what blog keeps of one served command
LogEntry(cmdline, payload, out, files, spec) ==
  [cmd |-> cmdline,
   content |-> IF lower(Head(cmdline)) = "put" /\ Len(cmdline) > 1
               THEN <<receive(payload)>> ELSE <<>>,
   status |-> out.status,
   sent |-> out.sent,
   files |-> files,
   spec |-> spec]

Last2(s) == IF Len(s) <= 2 THEN s ELSE SubSeq(s, Len(s) - 1, Len(s))

\* one turn of the loop of Bucket.run for an outside client: accept,
\* receive the command line, run its handler, close the client connection
Serve(b, commands, limit) ==
  /\ bpc[b] = "serving"
  /\ ncmd < limit
  /\ \E cmdline \in commands, payload \in Payloads :
       /\ (Head(cmdline) = "PUT" => cmdline[3] = str(payload.len))
       /\ LET out == dispatch(bfiles[b], bspec[b], cmdline, payload) IN
          /\ bfiles' = [bfiles EXCEPT ![b] = out.files]
          /\ bspec' = [bspec EXCEPT ![b] = out.spec]
          /\ bpc' = [bpc EXCEPT ![b] =
                       IF out.status = "EXCEPTION" THEN "crashed" ELSE "updating"]
          /\ blog' = [blog EXCEPT ![b] =
                        Last2(Append(@, LogEntry(cmdline, payload, out,
                                                 bfiles[b], bspec[b])))]
  /\ ncmd' = ncmd + 1
  /\ UNCHANGED bregion
  /\ UNCHANGED <<regvars, cachevars, mgrvars>>

ClientCommand(b) == Serve(b, BucketCommands, MaxCmds)

\* Bucket.try_update, called by run() after the client connection is closed
TryUpdate(b) ==
  /\ bpc[b] = "updating"
  /\ IF regpc = "dead"
     THEN /\ bpc' = [bpc EXCEPT ![b] = "crashed"]
          /\ UNCHANGED regq
     ELSE /\ bpc' = [bpc EXCEPT ![b] = "serving"]
          /\ regq' = Append(regq, update_message(b, bspec[b]))
  /\ UNCHANGED <<bfiles, bspec, bregion, blog, ncmd>>
  /\ UNCHANGED <<regpc, regmsg, regi, regsnap, regcalls, observers>>
  /\ UNCHANGED <<cachevars, mgrvars>>

\* Bucket.unregister: the node tells the registry to forget its id
BucketUnregister(b) ==
  /\ bpc[b] = "serving"
  /\ ncmd < MaxChurn
  /\ regq' = IF regpc = "dead" THEN regq ELSE Append(regq, <<"unregister", b>>)
  /\ ncmd' = ncmd + 1
  /\ UNCHANGED <<bpc, bfiles, bspec, bregion, blog>>
  /\ UNCHANGED <<regpc, regmsg, regi, regsnap, regcalls, observers>>
  /\ UNCHANGED <<cachevars, mgrvars>>

\* ------------------------------------------------- Subject.listen
\* the number of fields each known command is unpacked into
Arity(command) ==
  CASE command = "register" -> 8 [] command = "update" -> 4 [] OTHER -> 0

\* a loop that stops one observer early
Pending_skips_last(msg, obs, i) ==
  IF Head(msg) \in {"register", "unregister", "update"}
  THEN i < Len(obs) ELSE FALSE

\* the observers the loop "for observer in self._observers" still visits
Pending(msg, obs, i) ==
  IF Head(msg) \in {"register", "unregister", "update"}
  THEN i <= Len(obs) ELSE FALSE

\* a registry that serves the newest waiting connection first
RegAccept_newest_first ==
  /\ regpc = "accept"
  /\ regq # <<>>
  /\ LET msg == regq[Len(regq)]
         command == Head(msg)
         args == Tail(msg)
         bad == \/ command \in {"register", "update"} /\ Len(args) # Arity(command)
                \/ command = "unregister" /\ Len(args) = 0
     IN /\ regq' = SubSeq(regq, 1, Len(regq) - 1)
        /\ regmsg' = msg
        /\ regsnap' = observers
        /\ regcalls' = <<>>
        /\ regi' = 1
        /\ regpc' = IF bad THEN "dead"
                    ELSE IF Pending(msg, observers, 1) THEN "fanout" ELSE "accept"
  /\ UNCHANGED observers
  /\ UNCHANGED <<bucketvars, cachevars, mgrvars>>

\* accept a connection, read its command line and unpack the fields
RegAccept ==
  /\ regpc = "accept"
  /\ regq # <<>>
  /\ LET msg == Head(regq)
         command == Head(msg)
         args == Tail(msg)
         bad == \/ command \in {"register", "update"} /\ Len(args) # Arity(command)
                \/ command = "unregister" /\ Len(args) = 0
     IN /\ regq' = Tail(regq)
        /\ regmsg' = msg
        /\ regsnap' = observers
        /\ regcalls' = <<>>
        /\ regi' = 1
        /\ regpc' = IF bad THEN "dead"
                    ELSE IF Pending(msg, observers, 1) THEN "fanout" ELSE "accept"
  /\ UNCHANGED observers
  /\ UNCHANGED <<bucketvars, cachevars, mgrvars>>

\* the command lines outside clients send to the registry: an unknown verb,
\* a wrong number of fields, an unregister, an update and a second register
RegistryCommands ==
  {<<"frobnicate", "x">>, <<"update", "b1">>, <<"unregister", "b1">>,
   update_message("b1", LowSpec(1)),
   register_message("b1", "eu", LowSpec(MaxLow))}

\* an outside client connects to the registry and sends one command line
RegistryCommand ==
  /\ ncmd < MaxOutside
  /\ regpc # "dead"
  /\ \E cmdline \in RegistryCommands : regq' = Append(regq, cmdline)
  /\ ncmd' = ncmd + 1
  /\ UNCHANGED <<bpc, bfiles, bspec, bregion, blog>>
  /\ UNCHANGED <<regpc, regmsg, regi, regsnap, regcalls, observers>>
  /\ UNCHANGED <<cachevars, mgrvars>>

\* the handle and the spec the registry builds from the received fields
SpecOf(fields) ==
  [files_count |-> int(fields[1]),
   available_space |-> int(fields[2]),
   used_space |-> int(fields[3])]

HandleOf(args) ==
  Client(args[2], int(args[3]), args[5], args[1], args[4],
         SpecOf(SubSeq(args, 6, 8)))

\* the call the registry makes on one observer for a command
CallOf(msg) ==
  LET command == Head(msg)
      args == Tail(msg)
  IN CASE command = "register" -> [event |-> "registered", arg |-> <<HandleOf(args)>>]
       [] command = "unregister" -> [event |-> "unregistered", arg |-> <<args[1]>>]
       [] command = "update" ->
            [event |-> "updated", arg |-> <<args[1], SpecOf(SubSeq(args, 2, 4))>>]
       [] OTHER -> [event |-> "none", arg |-> <<>>]

\* the observer's callback
Callback(call, cache, handles) ==
  CASE call.event = "registered" -> registered(cache, handles, call.arg[1])
    [] call.event = "unregistered" -> unregistered(cache, handles, call.arg[1])
    [] call.event = "updated" -> updated(cache, handles, call.arg[1], call.arg[2])
    [] OTHER -> [cache |-> cache, handles |-> handles, raised |-> FALSE]

\* one iteration of "for observer in self._observers"; after the last one
\* the connection is closed and the registry accepts again
RegNotify ==
  /\ regpc = "fanout"
  /\ Pending(regmsg, observers, regi)
  /\ LET o == observers[regi]
         call == CallOf(regmsg)
         res == Callback(call, mcache[o], mhandles[o])
     IN /\ mcache' = [mcache EXCEPT ![o] = res.cache]
        /\ mhandles' = [mhandles EXCEPT ![o] = res.handles]
        /\ regcalls' = Append(regcalls, [observer |-> o, call |-> call])
        /\ regpc' = IF res.raised THEN "dead"
                    ELSE IF Pending(regmsg, observers, regi + 1) THEN "fanout"
                    ELSE "accept"
  /\ regi' = regi + 1
  /\ UNCHANGED <<regq, regmsg, regsnap, observers>>
  /\ UNCHANGED <<bucketvars, mgrvars>>

\* ---------------------------------------------------- manager/server.py
Response(status, content_type, data) ==
  [status |-> status, content_type |-> content_type, data |-> data]

\* Connection.send_chunk: the text padded with spaces to one chunk
send_chunk(text) == [text |-> text, len |-> CHUNK_SIZE]

\* Response.send: the messages written to the client connection
send(response) ==
  <<send_chunk(response.status), send_chunk(response.content_type)>>
  \o (IF response.data # <<>> /\ response.data[1].len > 0
      THEN <<response.data[1]>> ELSE <<>>)

\* ---------------------------------------------- c9/manager/handlers.py
\* the manager whose accept loop is modelled
MGR == "m1"

\* Handler.parse_parameters; a parameter is the sequence of its parts
\* between "=" signs
RECURSIVE parse_parameters(_)
parse_parameters(parameters) ==
  IF parameters = <<>>
  THEN [args |-> <<>>, kwargs |-> <<>>, raised |-> FALSE]
  ELSE LET before == parse_parameters(SubSeq(parameters, 1, Len(parameters) - 1))
           parameter == parameters[Len(parameters)]
       IN IF before.raised THEN before
          ELSE IF Len(parameter) > 1
               THEN IF Len(parameter) = 2
                    THEN [before EXCEPT
                            !.kwargs = (parameter[1] :> parameter[2]) @@ @]
                    ELSE [before EXCEPT !.raised = TRUE]
               ELSE [before EXCEPT !.args = Append(@, parameter[1])]

\* HandlerRegistry.handlers, filled by the metaclass
HandlerNames == {"upload", "download"}

\* HandlerRegistry.get
get(command) == IF command \in HandlerNames THEN <<command>> ELSE <<>>

\* the parameters of each handler's _handle, after self
Signature(handler) ==
  IF handler = "upload" THEN <<"_", "filename">> ELSE <<"filename">>

\* handler(*args, **kwargs) raises TypeError
BindFails(params, args, kwargs) ==
  \/ Len(args) > Len(params)
  \/ \E key \in DOMAIN kwargs : \A i \in 1 .. Len(params) : params[i] # key
  \/ \E i \in 1 .. Len(params) : i <= Len(args) /\ params[i] \in DOMAIN kwargs
  \/ \E i \in 1 .. Len(params) : i > Len(args) /\ params[i] \notin DOMAIN kwargs

Argument(params, args, kwargs, name) ==
  LET i == CHOOSE j \in 1 .. Len(params) : params[j] = name
  IN IF i <= Len(args) THEN args[i] ELSE kwargs[name]

get_bucket_available_space(bucket) == bucket.spec.available_space

\* the sort key of UploadHandler.select_bucket
Distance(region, bucket) == DISTANCE_MATRIX[region][bucket.region]

\* select_bucket without the sort: the first bucket with room
select_bucket_unsorted(region, buckets, size) ==
  LET available_buckets ==
        SelectSeq(buckets, LAMBDA b : get_bucket_available_space(b) >= size)
      n == Len(available_buckets)
  IN IF n = 0 THEN [raised |-> FALSE, bucket |-> <<>>]
     ELSE IF \E i \in 1 .. n :
               available_buckets[i].region \notin DOMAIN DISTANCE_MATRIX[region]
          THEN [raised |-> TRUE, bucket |-> <<>>]
          ELSE [raised |-> FALSE, bucket |-> <<available_buckets[1].id>>]

\* UploadHandler.select_bucket: the id of the selected handle (<<>> for
\* None); raised when the distance lookup of a candidate fails (KeyError)
select_bucket(region, buckets, size) ==
  LET available_buckets ==
        SelectSeq(buckets, LAMBDA b : get_bucket_available_space(b) >= size)
      n == Len(available_buckets)
  IN IF n = 0 THEN [raised |-> FALSE, bucket |-> <<>>]
     ELSE IF \E i \in 1 .. n :
               available_buckets[i].region \notin DOMAIN DISTANCE_MATRIX[region]
          THEN [raised |-> TRUE, bucket |-> <<>>]
          ELSE LET first ==
                     CHOOSE i \in 1 .. n :
                       /\ \A j \in 1 .. n :
                            Distance(region, available_buckets[i])
                              <= Distance(region, available_buckets[j])
                       /\ \A j \in 1 .. (i - 1) :
                            Distance(region, available_buckets[i])
                              < Distance(region, available_buckets[j])
               IN [raised |-> FALSE, bucket |-> <<available_buckets[first].id>>]

\* a selection that returns the last bucket tracking the name
select_download_last(buckets, filename) ==
  LET holds(b) == \E i \in 1 .. Len(b.files) : b.files[i] = filename
      holders == SelectSeq(buckets, holds)
  IN IF holders = <<>> THEN <<>> ELSE <<holders[Len(holders)].id>>

\* DownloadHandler.select_bucket
select_download(buckets, filename) ==
  LET holds(b) == \E i \in 1 .. Len(b.files) : b.files[i] = filename
      holders == SelectSeq(buckets, holds)
  IN IF holders = <<>> THEN <<>> ELSE <<holders[1].id>>

\* a context that reads the manager's cache when the handler uses it
Handles_live(ids) ==
  [i \in 1 .. Len(mcache[MGR]) |-> mhandles[MGR][mcache[MGR][i]][1]]

\* Context.buckets: the Client objects of the ids in the snapshot
Handles(ids) == [i \in 1 .. Len(ids) |-> mhandles[MGR][ids[i]][1]]

NoBytes == [data |-> "", len |-> 0]

\* the text of the exception instead of the fixed text
ExceptionText == [data |-> "ConnectionError", len |-> 15]

UnknownError == [data |-> "Unknown error", len |-> 13]

NoThread ==
  [pc |-> "none", handler |-> "", args |-> <<>>, kwargs |-> <<>>,
   buckets |-> <<>>, filename |-> "", content |-> <<>>, main |-> <<>>,
   backup |-> <<>>, response |-> <<>>, error |-> "",
   seen_main |-> {}, seen_backup |-> {}]

NoConn ==
  [state |-> "none", cmdline |-> <<>>, payload |-> <<>>, sent |-> <<>>,
   prior |-> {}]

\* the ids, among ids, whose handle has cached room for size bytes now
Roomy(ids, size) ==
  {b \in Buckets :
     /\ \E i \in 1 .. Len(ids) : ids[i] = b
     /\ mhandles[MGR][b][1].spec.available_space >= size}

\* ------------------------------------------------ c9/manager/__init__.py
\* what clients send to the manager: a command line and, for an upload,
\* the file that follows it
UploadPayloads ==
  {[data |-> "x", len |-> 1], [data |-> "y", len |-> SmallLen],
   [data |-> "x", len |-> CHUNK_SIZE + 1]}

ManagerRequests ==
  {[cmdline |-> <<"upload", <<"path">>, <<"report.txt">>>>, payload |-> <<p>>] :
     p \in UploadPayloads}
  \cup {[cmdline |-> <<"upload", <<"path">>, <<"filename", "notes.txt">>>>,
         payload |-> <<[data |-> "y", len |-> 1]>>],
        [cmdline |-> <<"upload", <<"report.txt">>>>,
         payload |-> <<[data |-> "x", len |-> 1]>>],
        [cmdline |-> <<"download", <<"a", "b", "c">>>>, payload |-> <<>>],
        [cmdline |-> <<"frobnicate", <<"x">>>>, payload |-> <<>>]}
  \cup {[cmdline |-> <<"download", <<f>>>>, payload |-> <<>>] : f \in FileNames}

\* one turn of the loop of Manager.run
Accept(requests, limit) ==
  /\ nreq < limit
  /\ \E request \in requests :
       LET k == nreq + 1
           command == Head(request.cmdline)
           handler_class == get(command)
           parsed == parse_parameters(Tail(request.cmdline))
       IN /\ conn' = [conn EXCEPT ![k] =
                        [state |-> "open", cmdline |-> request.cmdline,
                         payload |-> request.payload, sent |-> <<>>,
                         prior |-> {j \in 1 .. MaxRequests :
                                      conn[j].state = "closed"}]]
          /\ thr' = [thr EXCEPT ![k] =
                       IF handler_class = <<>> \/ parsed.raised
                       THEN NoThread
                       ELSE [NoThread EXCEPT
                               !.pc = "call", !.handler = command,
                               !.args = parsed.args, !.kwargs = parsed.kwargs,
                               !.buckets = mcache[MGR]]]
  /\ nreq' = nreq + 1
  /\ UNCHANGED <<bucketvars, regvars, cachevars>>

Fail(t, content_type, data, error) ==
  [t EXCEPT !.pc = "respond",
            !.response = <<Response("ERROR", content_type, data)>>,
            !.error = error]

\* UploadHandler._handle up to the selection of the primary
UploadBegin(t, filename, payload) ==
  LET content == receive(payload)
      sel == select_bucket(REGION, Handles(t.buckets), content.len)
      u == [t EXCEPT !.filename = filename, !.content = <<content>>,
                     !.seen_main = Roomy(t.buckets, content.len)]
  IN IF sel.raised THEN Fail(u, "no-content", <<>>, "KeyError")
     ELSE IF sel.bucket = <<>>
          THEN Fail(u, "no-content", <<>>, "No bucket available")
          ELSE [u EXCEPT !.pc = "select_backup", !.main = sel.bucket]

\* DownloadHandler._handle up to the selection of the bucket
DownloadBegin(t, filename) ==
  LET sel == select_download(Handles(t.buckets), filename)
      u == [t EXCEPT !.filename = filename]
  IN IF sel = <<>>
     THEN [u EXCEPT !.pc = "respond",
                    !.response = <<Response("NOT_FOUND", "no-content", <<>>)>>]
     ELSE [u EXCEPT !.pc = "get", !.main = sel]

\* the wrapper of Manager.thread_wrapper calls handler(*args, **kwargs)
HandlerCall(k) ==
  /\ thr[k].pc = "call"
  /\ LET t == thr[k]
         params == Signature(t.handler)
     IN thr' = [thr EXCEPT ![k] =
                  IF BindFails(params, t.args, t.kwargs)
                  THEN [t EXCEPT !.pc = "raised", !.error = "TypeError"]
                  ELSE IF t.handler = "upload"
                       THEN UploadBegin(t, Argument(params, t.args, t.kwargs, "filename"),
                                        conn[k].payload[1])
                       ELSE DownloadBegin(t, Argument(params, t.args, t.kwargs, "filename"))]
  /\ UNCHANGED <<nreq, conn>>
  /\ UNCHANGED <<bucketvars, regvars, cachevars>>

\* an upload that fails when no backup can be selected
SelectBackup_requires_backup(k) ==
  /\ thr[k].pc = "select_backup"
  /\ LET t == thr[k]
         others == SelectSeq(Handles(t.buckets), LAMBDA b : b.id # t.main[1])
         sel == select_bucket(REGION, others, t.content[1].len)
         u == [t EXCEPT !.seen_backup = Roomy(t.buckets, t.content[1].len)]
     IN thr' = [thr EXCEPT ![k] =
                  IF sel.raised THEN Fail(u, "no-content", <<>>, "KeyError")
                  ELSE IF sel.bucket = <<>>
                       THEN Fail(u, "no-content", <<>>, "No bucket available")
                       ELSE [u EXCEPT !.pc = "put_main", !.backup = sel.bucket]]
  /\ UNCHANGED <<nreq, conn>>
  /\ UNCHANGED <<bucketvars, regvars, cachevars>>

\* UploadHandler._handle: the selection of the backup
SelectBackup(k) ==
  /\ thr[k].pc = "select_backup"
  /\ LET t == thr[k]
         others == SelectSeq(Handles(t.buckets), LAMBDA b : b.id # t.main[1])
         sel == select_bucket(REGION, others, t.content[1].len)
         u == [t EXCEPT !.seen_backup = Roomy(t.buckets, t.content[1].len)]
     IN thr' = [thr EXCEPT ![k] =
                  IF sel.raised THEN Fail(u, "no-content", <<>>, "KeyError")
                  ELSE [u EXCEPT !.pc = "put_main", !.backup = sel.bucket]]
  /\ UNCHANGED <<nreq, conn>>
  /\ UNCHANGED <<bucketvars, regvars, cachevars>>

Listening(b) == bpc[b] \in {"serving", "updating"}

Succeed(t) ==
  [t EXCEPT !.pc = "respond",
            !.response = <<Response("OK", "no-content", <<>>)>>]

\* Client.put that does not look at the status the storage node answers
PutStep_ignores_status(k, b, after) ==
  /\ bpc[b] # "updating"
  /\ LET t == thr[k]
         out == dispatch(bfiles[b], bspec[b],
                         <<"PUT", t.filename, str(t.content[1].len)>>, t.content[1])
     IN IF ~Listening(b)
        THEN /\ thr' = [thr EXCEPT ![k] = Fail(t, "no-content", <<>>, "ConnectionError")]
             /\ UNCHANGED <<bpc, bfiles, bspec, mhandles>>
        ELSE /\ bfiles' = [bfiles EXCEPT ![b] = out.files]
             /\ bspec' = [bspec EXCEPT ![b] = out.spec]
             /\ bpc' = [bpc EXCEPT ![b] = "updating"]
             /\ mhandles' = [mhandles EXCEPT ![MGR][b][1].files =
                               Append(@, t.filename)]
             /\ thr' = [thr EXCEPT ![k] = after]
  /\ UNCHANGED <<bregion, blog, ncmd, mcache, nreq, conn>>
  /\ UNCHANGED regvars

\* a storage node that admits a PUT on the available_space the manager has
\* cached, not on the one its earlier requests left
PutStep_stale_admission(k, b, after) ==
  /\ bpc[b] # "updating"
  /\ LET t == thr[k]
         stale == [bspec[b] EXCEPT !.available_space =
                     mhandles[MGR][b][1].spec.available_space]
         out == dispatch(bfiles[b], stale,
                         <<"PUT", t.filename, str(t.content[1].len)>>, t.content[1])
     IN IF ~Listening(b)
        THEN /\ thr' = [thr EXCEPT ![k] = Fail(t, "no-content", <<>>, "ConnectionError")]
             /\ UNCHANGED <<bpc, bfiles, bspec, mhandles>>
        ELSE /\ bfiles' = [bfiles EXCEPT ![b] = out.files]
             /\ bspec' = [bspec EXCEPT ![b] = out.spec]
             /\ bpc' = [bpc EXCEPT ![b] = "updating"]
             /\ IF out.sent[1] = "OK"
                THEN /\ mhandles' = [mhandles EXCEPT ![MGR][b][1].files =
                                       Append(@, t.filename)]
                     /\ thr' = [thr EXCEPT ![k] = after]
                ELSE /\ thr' = [thr EXCEPT ![k] =
                                  Fail(t, "no-content", <<>>, "RuntimeError")]
                     /\ UNCHANGED mhandles
  /\ UNCHANGED <<bregion, blog, ncmd, mcache, nreq, conn>>
  /\ UNCHANGED regvars

\* Client.put against storage node b, which serves it in one turn of its loop
PutStep(k, b, after) ==
  /\ bpc[b] # "updating"
  /\ LET t == thr[k]
         out == dispatch(bfiles[b], bspec[b],
                         <<"PUT", t.filename, str(t.content[1].len)>>, t.content[1])
     IN IF ~Listening(b)
        THEN /\ thr' = [thr EXCEPT ![k] = Fail(t, "no-content", <<>>, "ConnectionError")]
             /\ UNCHANGED <<bpc, bfiles, bspec, mhandles>>
        ELSE /\ bfiles' = [bfiles EXCEPT ![b] = out.files]
             /\ bspec' = [bspec EXCEPT ![b] = out.spec]
             /\ bpc' = [bpc EXCEPT ![b] = "updating"]
             /\ IF out.sent[1] = "OK"
                THEN /\ mhandles' = [mhandles EXCEPT ![MGR][b][1].files =
                                       Append(@, t.filename)]
                     /\ thr' = [thr EXCEPT ![k] = after]
                ELSE /\ thr' = [thr EXCEPT ![k] =
                                  Fail(t, "no-content", <<>>, "RuntimeError")]
                     /\ UNCHANGED mhandles
  /\ UNCHANGED <<bregion, blog, ncmd, mcache, nreq, conn>>
  /\ UNCHANGED regvars

\* an upload that writes the backup first and the primary after it
PutMain_backup_first(k) ==
  /\ thr[k].pc = "put_main"
  /\ PutStep(k, IF thr[k].backup # <<>> THEN thr[k].backup[1] ELSE thr[k].main[1],
             IF thr[k].backup # <<>>
             THEN [thr[k] EXCEPT !.pc = "put_backup"]
             ELSE Succeed(thr[k]))

PutMain(k) ==
  /\ thr[k].pc = "put_main"
  /\ PutStep(k, thr[k].main[1],
             IF thr[k].backup # <<>>
             THEN [thr[k] EXCEPT !.pc = "put_backup"]
             ELSE Succeed(thr[k]))

\* a replication that deletes the file from the primary when the put on the
\* backup fails
PutBackup_rolls_back(k) ==
  /\ thr[k].pc = "put_backup"
  /\ LET t == thr[k]
         b == t.backup[1]
         m == t.main[1]
         put == dispatch(bfiles[b], bspec[b],
                         <<"PUT", t.filename, str(t.content[1].len)>>, t.content[1])
         undo == handle_delete(bfiles[m], bspec[m], <<t.filename>>)
     IN /\ bpc[b] # "updating"
        /\ IF Listening(b) /\ put.status = "OK"
           THEN PutStep(k, b, Succeed(t))
           ELSE /\ thr' = [thr EXCEPT ![k] =
                             Fail(t, "no-content", <<>>, "RuntimeError")]
                /\ bfiles' = [bfiles EXCEPT ![m] = undo.files]
                /\ bspec' = [bspec EXCEPT ![m] = undo.spec]
                /\ UNCHANGED <<bpc, bregion, blog, ncmd, mcache, mhandles, nreq, conn>>
                /\ UNCHANGED regvars

PutBackup(k) ==
  /\ thr[k].pc = "put_backup"
  /\ PutStep(k, thr[k].backup[1], Succeed(thr[k]))

\* Client.get against the selected storage node
Get(k) ==
  /\ thr[k].pc = "get"
  /\ LET t == thr[k]
         b == t.main[1]
         out == dispatch(bfiles[b], bspec[b], <<"GET", t.filename>>, NoBytes)
     IN /\ bpc[b] # "updating"
        /\ IF ~Listening(b)
           THEN /\ thr' = [thr EXCEPT ![k] =
                             Fail(t, "text/plain", <<UnknownError>>, "ConnectionError")]
                /\ UNCHANGED <<bpc, mhandles>>
           ELSE /\ bpc' = [bpc EXCEPT ![b] = "updating"]
                /\ IF out.sent[1] = "OK"
                   THEN /\ mhandles' = [mhandles EXCEPT ![MGR][b][1].files =
                                          Append(@, out.sent[2][1])]
                        /\ thr' = [thr EXCEPT ![k] =
                                     [t EXCEPT !.pc = "respond",
                                               !.response =
                                                 <<Response("OK", "application/bytes",
                                                            <<receive(out.sent[3])>>)>>]]
                   ELSE /\ thr' = [thr EXCEPT ![k] =
                                     [t EXCEPT !.pc = "respond",
                                               !.response =
                                                 <<Response("NOT_FOUND", "no-content", <<>>)>>]]
                        /\ UNCHANGED mhandles
  /\ UNCHANGED <<bfiles, bspec, bregion, blog, ncmd, mcache, nreq, conn>>
  /\ UNCHANGED regvars

\* the rest of the wrapper: response.send(), and server.close() in finally.
\* sent is what send() writes; whether or not it then raises because the
\* client is gone, the connection is closed.
Respond(k) ==
  /\ thr[k].pc = "respond"
  /\ conn' = [conn EXCEPT ![k].state = "closed",
                          ![k].sent = send(thr[k].response[1])]
  /\ thr' = [thr EXCEPT ![k].pc = "done"]
  /\ UNCHANGED nreq
  /\ UNCHANGED <<bucketvars, regvars, cachevars>>

\* ------------------------------------------------------ initial states
InitRegistryIdle ==
  /\ regpc = "accept"
  /\ regq = <<>>
  /\ regmsg = <<"none">>
  /\ regi = 1
  /\ regsnap = <<>>
  /\ regcalls = <<>>

InitNoCache ==
  /\ mcache = [o \in Managers |-> <<>>]
  /\ mhandles = [o \in Managers |-> [b \in Buckets |-> <<>>]]

InitNoRequests ==
  /\ nreq = 0
  /\ conn = [k \in 1 .. MaxRequests |-> NoConn]
  /\ thr = [k \in 1 .. MaxRequests |-> NoThread]

\* a storage node that is serving: new, or nearly full with an empty directory
ServingSpecs == {FreshSpec} \cup {LowSpec(a) : a \in 1 .. MaxLow}

\* One storage node that registered with a registry nobody subscribed to,
\* and outside clients sending it commands.
InitBucket ==
  /\ bpc = [x \in Buckets |-> IF x = "b1" THEN "serving" ELSE "absent"]
  /\ bfiles = [b \in Buckets |-> NoFiles]
  /\ bregion = [b \in Buckets |-> ScenarioRegion(b)]
  /\ bspec \in [Buckets -> ServingSpecs]
  /\ \A b \in Buckets : bpc[b] = "absent" => bspec[b] = FreshSpec
  /\ blog = [b \in Buckets |-> <<>>]
  /\ ncmd = 0
  /\ InitRegistryIdle
  /\ observers = <<>>
  /\ InitNoCache
  /\ InitNoRequests

NextBucket ==
  \/ \E b \in Buckets : ClientCommand(b)
  \/ \E b \in Buckets : TryUpdate(b)

SpecBucket == InitBucket /\ [][NextBucket]_vars

\* Two storage nodes starting and registering while managers are constructed
\* and outside clients send commands to the registry and to the nodes.
InitRegistry ==
  /\ bpc = [b \in Buckets |-> IF b = "b3" THEN "absent" ELSE "starting"]
  /\ bfiles = [b \in Buckets |-> NoFiles]
  /\ bregion = [b \in Buckets |-> ScenarioRegion(b)]
  /\ bspec = [b \in Buckets |-> FreshSpec]
  /\ blog = [b \in Buckets |-> <<>>]
  /\ ncmd = 0
  /\ InitRegistryIdle
  /\ observers = <<>>
  /\ InitNoCache
  /\ InitNoRequests

\* the command lines outside clients send to a node while nodes register
NodeCommands == {<<"LIST">>, <<"FROB", "x">>}

NodeCommand(b) == Serve(b, NodeCommands, MaxOutside)

NextRegistry ==
  \/ \E o \in Managers : ManagerInit(o)
  \/ \E b \in Buckets : BucketRegister(b)
  \/ RegAccept
  \/ RegNotify
  \/ RegistryCommand
  \/ \E b \in Buckets : NodeCommand(b)
  \/ \E b \in Buckets : TryUpdate(b)

SpecRegistry == InitRegistry /\ [][NextRegistry]_vars

\* The running system: every storage node has registered and is serving, the
\* manager has subscribed and holds a handle with the node's current spec.
CacheOrder == <<"b1", "b2", "b3">>

InitServing ==
  /\ bpc = [b \in Buckets |-> "serving"]
  /\ bfiles = [b \in Buckets |-> NoFiles]
  /\ bspec \in [Buckets -> ServingSpecs]
  /\ blog = [b \in Buckets |-> <<>>]
  /\ ncmd = 0
  /\ InitRegistryIdle
  /\ observers = <<MGR>>
  /\ mcache = [o \in Managers |-> IF o = MGR THEN CacheOrder ELSE <<>>]
  /\ mhandles =
       [o \in Managers |->
          [b \in Buckets |->
             IF o = MGR
             THEN <<Client(BucketHost(b), BucketPort(b), BucketPath(b), b,
                           bregion[b], bspec[b])>>
             ELSE <<>>]]
  /\ InitNoRequests

Init ==
  /\ bregion = [b \in Buckets |-> ScenarioRegion(b)]
  /\ InitServing

\* an accept loop that joins the handler thread before it accepts again
ManagerAccept_joins_handler ==
  /\ \A k \in 1 .. MaxRequests : conn[k].state \in {"none", "closed"}
  /\ Accept(ManagerRequests, MaxRequests)

ManagerAccept == Accept(ManagerRequests, MaxRequests)

Next ==
  \/ ManagerAccept
  \/ \E k \in 1 .. MaxRequests : HandlerCall(k)
  \/ \E k \in 1 .. MaxRequests : SelectBackup(k)
  \/ \E k \in 1 .. MaxRequests : PutMain(k)
  \/ \E k \in 1 .. MaxRequests : PutBackup(k)
  \/ \E k \in 1 .. MaxRequests : Get(k)
  \/ \E k \in 1 .. MaxRequests : Respond(k)
  \/ \E b \in Buckets : TryUpdate(b)
  \/ RegAccept
  \/ RegNotify

Spec == Init /\ [][Next]_vars

\* The placement of one upload, for storage nodes of every region.
UploadRequests == {r \in ManagerRequests : Head(r.cmdline) = "upload"}

InitPlace ==
  /\ bregion \in [Buckets -> Regions]
  /\ InitServing

PlaceAccept == Accept(UploadRequests, MaxPlaced)

NextPlace ==
  \/ PlaceAccept
  \/ \E k \in 1 .. MaxRequests : HandlerCall(k)
  \/ \E k \in 1 .. MaxRequests : SelectBackup(k)
  \/ \E k \in 1 .. MaxRequests : PutMain(k)
  \/ \E k \in 1 .. MaxRequests : PutBackup(k)
  \/ \E k \in 1 .. MaxRequests : Respond(k)

SpecPlace == InitPlace /\ [][NextPlace]_vars

\* The manager serving the uploads and downloads of one client while outside
\* clients delete the file, fill a node or send a node a command that ends
\* its run().
FaultRequests ==
  {[cmdline |-> <<"upload", <<"path">>, <<"report.txt">>>>, payload |-> <<p>>] :
     p \in {[data |-> "x", len |-> 1], [data |-> "y", len |-> SmallLen]}}
  \cup {[cmdline |-> <<"download", <<"report.txt">>>>, payload |-> <<>>]}

FaultCommands ==
  {<<"DELETE", "report.txt">>, <<"FROB", "x">>, <<"PUT", "notes.txt", str(1)>>}

InitFaults ==
  /\ bregion = [b \in Buckets |-> ScenarioRegion(b)]
  /\ InitServing
  /\ bspec["b3"] = FreshSpec
  /\ \A b \in Buckets : bspec[b] \in {FreshSpec, LowSpec(1)}

\* the client sends a request when its previous one has been answered
FaultAccept ==
  /\ \A k \in 1 .. MaxRequests : conn[k].state \in {"none", "closed"}
  /\ Accept(FaultRequests, MaxRequests)

Fault(b) == Serve(b, FaultCommands, MaxFaults)

NextFaults ==
  \/ FaultAccept
  \/ \E b \in Buckets : Fault(b)
  \/ \E k \in 1 .. MaxRequests : HandlerCall(k)
  \/ \E k \in 1 .. MaxRequests : SelectBackup(k)
  \/ \E k \in 1 .. MaxRequests : PutMain(k)
  \/ \E k \in 1 .. MaxRequests : PutBackup(k)
  \/ \E k \in 1 .. MaxRequests : Get(k)
  \/ \E k \in 1 .. MaxRequests : Respond(k)
  \/ \E b \in Buckets : TryUpdate(b)
  \/ RegAccept
  \/ RegNotify

SpecFaults == InitFaults /\ [][NextFaults]_vars

\* The manager serving the requests of one client while storage nodes register
\* and unregister: at first only the node of us-east has registered, the node
\* of eu is starting.
ChurnRequests ==
  {[cmdline |-> <<"upload", <<"path">>, <<"report.txt">>>>, payload |-> <<p>>] :
     p \in {[data |-> "x", len |-> 1], [data |-> "y", len |-> SmallLen]}}
  \cup {[cmdline |-> <<"download", <<"report.txt">>>>, payload |-> <<>>]}

InitChurn ==
  /\ bpc = [b \in Buckets |->
              CASE b = "b1" -> "serving" [] b = "b2" -> "starting" [] OTHER -> "absent"]
  /\ bfiles = [b \in Buckets |-> NoFiles]
  /\ bregion = [b \in Buckets |-> ScenarioRegion(b)]
  /\ bspec \in [Buckets -> {FreshSpec, LowSpec(1)}]
  /\ bspec["b3"] = FreshSpec
  /\ blog = [b \in Buckets |-> <<>>]
  /\ ncmd = 0
  /\ InitRegistryIdle
  /\ observers = <<MGR>>
  /\ mcache = [o \in Managers |-> IF o = MGR THEN <<"b1">> ELSE <<>>]
  /\ mhandles =
       [o \in Managers |->
          [b \in Buckets |->
             IF o = MGR /\ b = "b1"
             THEN <<Client(BucketHost(b), BucketPort(b), BucketPath(b), b,
                           bregion[b], bspec[b])>>
             ELSE <<>>]]
  /\ InitNoRequests

\* the client sends a request when its previous one has been answered
ChurnAccept ==
  /\ \A k \in 1 .. MaxRequests : conn[k].state \in {"none", "closed"}
  /\ Accept(ChurnRequests, MaxRequests)

NextChurn ==
  \/ ChurnAccept
  \/ \E b \in Buckets : BucketRegister(b)
  \/ \E b \in Buckets : BucketUnregister(b)
  \/ \E k \in 1 .. MaxRequests : HandlerCall(k)
  \/ \E k \in 1 .. MaxRequests : SelectBackup(k)
  \/ \E k \in 1 .. MaxRequests : PutMain(k)
  \/ \E k \in 1 .. MaxRequests : PutBackup(k)
  \/ \E k \in 1 .. MaxRequests : Get(k)
  \/ \E k \in 1 .. MaxRequests : Respond(k)
  \/ \E b \in Buckets : TryUpdate(b)
  \/ RegAccept
  \/ RegNotify

SpecChurn == InitChurn /\ [][NextChurn]_vars

\* A storage node registering and serving clients while managers subscribe,
\* with the scheduling of the threads: a node that served a command goes on
\* to try_update, and the registry's thread goes on accepting and notifying.
LiveCommands ==
  {<<"PUT", "report.txt", str(1)>>, <<"DELETE", "report.txt">>, <<"LIST">>}

LiveCommand(b) == Serve(b, LiveCommands, MaxLive)

InitLive ==
  /\ bpc = [b \in Buckets |-> IF b = "b1" THEN "starting" ELSE "absent"]
  /\ bfiles = [b \in Buckets |-> NoFiles]
  /\ bregion = [b \in Buckets |-> ScenarioRegion(b)]
  /\ bspec = [b \in Buckets |-> FreshSpec]
  /\ blog = [b \in Buckets |-> <<>>]
  /\ ncmd = 0
  /\ InitRegistryIdle
  /\ observers = <<>>
  /\ InitNoCache
  /\ InitNoRequests

NextLive ==
  \/ \E o \in Managers : ManagerInit(o)
  \/ \E b \in Buckets : BucketRegister(b)
  \/ \E b \in Buckets : LiveCommand(b)
  \/ \E b \in Buckets : TryUpdate(b)
  \/ RegAccept
  \/ RegNotify

Fairness ==
  /\ \A b \in Buckets : WF_vars(TryUpdate(b))
  /\ WF_vars(RegAccept)
  /\ WF_vars(RegNotify)

SpecLive == InitLive /\ [][NextLive]_vars /\ Fairness

\* The storage nodes started by main(): threads of one process whose
\* directories .data/<id> are siblings.  A filename is a relative path, given
\* as its components: <<f>> is the file f of the node's own directory and
\* <<"..", c, f>> the file f of the directory of node c.
SharedNodes == {"b1", "b2"}

SharedPaths ==
  {<<f>> : f \in FileNames}
  \cup {<<"..", c, f>> : c \in SharedNodes, f \in FileNames}

\* self._path / filename: the directory and the name the path resolves to
resolve(b, filename) ==
  IF Len(filename) = 1
  THEN [dir |-> b, name |-> filename[1]]
  ELSE [dir |-> filename[2], name |-> filename[3]]

InitShared ==
  /\ bpc = [b \in Buckets |-> IF b \in SharedNodes THEN "serving" ELSE "absent"]
  /\ bfiles = [b \in Buckets |-> NoFiles]
  /\ bregion = [b \in Buckets |-> ScenarioRegion(b)]
  /\ bspec = [b \in Buckets |-> FreshSpec]
  /\ blog = [b \in Buckets |-> <<>>]
  /\ ncmd = 0
  /\ InitRegistryIdle
  /\ observers = <<>>
  /\ InitNoCache
  /\ InitNoRequests

\* one turn of the loop of Bucket.run for a PUT or a DELETE whose filename
\* is a path: the handler reads and writes the file the path resolves to,
\* keeps the accounts in the spec of the node that serves the command, and
\* used_space is the size of that node's own directory
SharedCommand(b) ==
  /\ bpc[b] = "serving"
  /\ ncmd < MaxShared
  /\ \E verb \in {"PUT", "DELETE"}, filename \in SharedPaths,
        payload \in {p \in Payloads : p.data = "x" /\ p.len <= SmallLen} :
       LET at == resolve(b, filename)
           cmdline == IF verb = "PUT"
                      THEN <<verb, at.name, str(payload.len)>>
                      ELSE <<verb, at.name>>
           out == dispatch(bfiles[at.dir], bspec[b], cmdline, payload)
           written == [bfiles EXCEPT ![at.dir] = out.files]
       IN /\ bfiles' = written
          /\ bspec' = [bspec EXCEPT ![b] =
                         IF verb = "PUT" /\ out.status = "OK"
                         THEN [out.spec EXCEPT
                                 !.used_space = get_directory_size(written[b])]
                         ELSE out.spec]
          /\ bpc' = [bpc EXCEPT ![b] = "updating"]
          /\ blog' = [blog EXCEPT ![b] =
                        Last2(Append(@, LogEntry(<<verb, filename>>, payload, out,
                                                 bfiles[b], bspec[b])))]
  /\ ncmd' = ncmd + 1
  /\ UNCHANGED bregion
  /\ UNCHANGED <<regvars, cachevars, mgrvars>>

NextShared ==
  \/ \E b \in Buckets : SharedCommand(b)
  \/ \E b \in Buckets : TryUpdate(b)

SpecShared == InitShared /\ [][NextShared]_vars

\* ======================================================== the claims
\* ------------------------------------------------- storage node claims
IsPut(e) == lower(Head(e.cmd)) = "put" /\ Len(e.cmd) > 1

PutOK(e, f) == IsPut(e) /\ e.cmd[2] = f /\ e.status = "OK"

DeleteOK(e, f) ==
  lower(Head(e.cmd)) = "delete" /\ Len(e.cmd) > 1 /\ e.cmd[2] = f /\ e.status = "OK"

IsGet(e, f) == lower(Head(e.cmd)) = "get" /\ Len(e.cmd) > 1 /\ e.cmd[2] = f

\* the spec and the directory right after the i-th command kept in blog[b]
SpecAfter(b, i) == IF i = Len(blog[b]) THEN bspec[b] ELSE blog[b][i + 1].spec

FilesAfter(b, i) == IF i = Len(blog[b]) THEN bfiles[b] ELSE blog[b][i + 1].files

\* C3: after any earlier commands, a PUT of f answered OK followed by a
\* DELETE of f answered OK leaves available_space and files_count as they
\* were before the PUT.
C3_PutDeleteRestoresSpec ==
  \A b \in Buckets, f \in FileNames :
    (Len(blog[b]) = 2 /\ PutOK(blog[b][1], f) /\ DeleteOK(blog[b][2], f))
      => /\ bspec[b].available_space = blog[b][1].spec.available_space
         /\ bspec[b].files_count = blog[b][1].spec.files_count

TransmittedHandle(b, region, spec) ==
  Client(BucketHost(b), BucketPort(b), BucketPath(b), b, region, spec)

\* C8: when the registry is ready to accept the next connection after a
\* register command, every observer that was subscribed when the command was
\* received has received exactly one registered call, the calls were made in
\* subscription order, and the handle passed carries the transmitted id,
\* host, port, region and spec.
C8_RegisterFanOut ==
  (regpc = "accept" /\ Head(regmsg) = "register") =>
    /\ Len(regcalls) >= Len(regsnap)
    /\ \E b \in Buckets, region \in Regions, spec \in ServingSpecs :
         /\ regmsg = register_message(b, region, spec)
         /\ \A i \in 1 .. Len(regsnap) :
              /\ regcalls[i].observer = regsnap[i]
              /\ regcalls[i].call.event = "registered"
              /\ regcalls[i].call.arg = <<TransmittedHandle(b, region, spec)>>
    /\ \A o \in Managers :
         Subscribed(regsnap, o) =>
           Cardinality({i \in 1 .. Len(regcalls) : regcalls[i].observer = o}) = 1

\* C8 witness: a register command received with two observers subscribed
\* has been fanned out
C8_Witness ==
  /\ regpc = "accept"
  /\ Head(regmsg) = "register"
  /\ Len(regsnap) = 2
  /\ Len(regcalls) = 2

\* ------------------------------------------------------- manager claims
HandleRegion(b) == mhandles[MGR][b][1].region

UploadOK(t) ==
  /\ t.handler = "upload"
  /\ t.pc \in {"respond", "done"}
  /\ t.response[1].status = "OK"

\* C1: an upload of N bytes under a name that ended with status OK, followed
\* by a download of that name (no other upload of the name in between),
\* returns status OK and exactly the N bytes uploaded.
C1_RoundTrip ==
  \A u \in 1 .. MaxRequests, d \in 1 .. MaxRequests :
    ( /\ UploadOK(thr[u])
      /\ u \in conn[d].prior
      /\ thr[d].handler = "download"
      /\ thr[d].pc = "done"
      /\ thr[d].filename = thr[u].filename
      /\ \A j \in 1 .. MaxRequests :
           (j # u /\ thr[j].handler = "upload") => thr[j].filename # thr[u].filename )
    => conn[d].sent
         = send(Response("OK", "application/bytes", conn[u].payload))

\* the distance the claim ranks by: 0 from the manager's region to itself
ClaimDistance(r) == IF r = REGION THEN 0 ELSE DISTANCE_MATRIX[REGION][r]

PrimarySelectionRan(t) ==
  t.handler = "upload" /\ t.pc \notin {"none", "call", "raised"}

\* C2: select_bucket returns a bucket with cached available_space >= size
\* at minimal distance from the manager's region; it returns none exactly
\* when no bucket has that much cached space, and the upload then ends with
\* status ERROR.
C2_PrimaryPlacement ==
  \A k \in 1 .. MaxRequests :
    LET t == thr[k] IN
    PrimarySelectionRan(t) =>
      IF t.seen_main = {}
      THEN /\ t.main = <<>>
           /\ t.response # <<>>
           /\ t.response[1].status = "ERROR"
      ELSE /\ t.main # <<>>
           /\ t.main[1] \in t.seen_main
           /\ \A b \in t.seen_main :
                ClaimDistance(HandleRegion(t.main[1])) <= ClaimDistance(HandleRegion(b))

Holds(b, f) ==
  /\ exists(bfiles[b], f)
  /\ handle_get(bfiles[b], bspec[b], <<f>>).status = "OK"

Replicated(t) ==
  /\ t.backup # <<>>
  /\ t.backup # t.main
  /\ Holds(t.main[1], t.filename)
  /\ Holds(t.backup[1], t.filename)

DistinctBackup ==
  \A k \in 1 .. MaxRequests :
    (thr[k].main # <<>> /\ thr[k].backup # <<>>) => thr[k].main # thr[k].backup

\* C6 as stated: an upload that ended with status OK while at least two known
\* buckets had cached available_space >= payload size (when the primary was
\* selected) has written the file to two buckets with distinct ids, and the
\* backup id always differs from the primary id.
C6_Replication_AsStated ==
  /\ \A k \in 1 .. MaxRequests :
       (UploadOK(thr[k]) /\ Cardinality(thr[k].seen_main) >= 2) => Replicated(thr[k])
  /\ DistinctBackup

\* C6 amended: an upload that ended with status OK while at least two known
\* buckets had cached available_space >= payload size when its backup was
\* selected has written the file to two buckets with distinct ids, from each
\* of which a GET retrieves it; the backup id always differs from the
\* primary id.
C6_Replication ==
  /\ \A k \in 1 .. MaxRequests :
       (UploadOK(thr[k]) /\ Cardinality(thr[k].seen_backup) >= 2) => Replicated(thr[k])
  /\ DistinctBackup

\* C6 witness: an upload has ended with status OK and two copies
C6_Witness ==
  \E k \in 1 .. MaxRequests :
    /\ UploadOK(thr[k])
    /\ thr[k].pc = "done"
    /\ Cardinality(thr[k].seen_backup) >= 2
    /\ Replicated(thr[k])

BackupSelectionRan(t) ==
  /\ t.handler = "upload"
  /\ t.pc \in {"put_main", "put_backup", "respond", "done"}
  /\ t.main # <<>>
  /\ t.error # "KeyError"

Scenario(t) ==
  /\ \A b \in Buckets : HandleRegion(b) = ScenarioRegion(b)
  /\ t.seen_main = Buckets
  /\ t.seen_backup = Buckets

\* C7: the backup is the bucket at minimal distance from the manager's region
\* among the known buckets other than the primary whose cached
\* available_space >= payload size (none when there is no such bucket); with
\* buckets in us-east, eu and asia, all with room, the primary is the us-east
\* bucket and the backup the eu bucket.
C7_BackupRanking ==
  \A k \in 1 .. MaxRequests :
    LET t == thr[k]
        others == t.seen_backup \ {t.main[1]}
    IN BackupSelectionRan(t) =>
         /\ IF others = {} THEN t.backup = <<>>
            ELSE /\ t.backup # <<>>
                 /\ t.backup[1] \in others
                 /\ \A b \in others :
                      DISTANCE_MATRIX[REGION][HandleRegion(t.backup[1])]
                        <= DISTANCE_MATRIX[REGION][HandleRegion(b)]
         /\ Scenario(t) => (t.main = <<"b1">> /\ t.backup = <<"b2">>)

\* C7 witness: the scenario's upload has put the file on us-east and eu
C7_Witness ==
  \E k \in 1 .. MaxRequests :
    /\ BackupSelectionRan(thr[k])
    /\ Scenario(thr[k])
    /\ thr[k].pc = "done"
    /\ thr[k].main = <<"b1">>
    /\ thr[k].backup = <<"b2">>
    /\ thr[k].response[1].status = "OK"

\* C9: the connection of every handler thread that has ended, on whatever
\* path, has been closed by that thread.
C9_ClosedOnEveryExit ==
  \A k \in 1 .. MaxRequests :
    thr[k].pc \in {"done", "raised"} => conn[k].state = "closed"

\* C10: a connection whose command has no registered handler gets no
\* response bytes and is closed (the accept loop goes on accepting).
C10_UnknownCommand ==
  \A k \in 1 .. MaxRequests :
    (conn[k].state # "none" /\ get(Head(conn[k].cmdline)) = <<>>)
      => /\ conn[k].sent = <<>>
         /\ conn[k].state = "closed"

\* ------------------------------------------- accept loops and failures
LastCommand(b) == blog[b][Len(blog[b])]

\* C11: after a single request the accept loops of the storage node and of
\* the registry are still running: a node that was sent a command with an
\* unknown verb or without its filename has not left run(), and the registry
\* has not left listen(), whatever command it was sent.
C11_AcceptLoopsSurvive ==
  /\ \A b \in Buckets :
       (blog[b] # <<>> /\ LastCommand(b).status = "EXCEPTION")
         => bpc[b] \in {"serving", "updating"}
  /\ regpc # "dead"

\* C12: a storage node that handled a command and then found the registry
\* unreachable when pushing its update keeps serving: it has not left run().
C12_ServesWithoutRegistry ==
  \A b \in Buckets :
    (blog[b] # <<>> /\ LastCommand(b).status # "EXCEPTION") => bpc[b] # "crashed"

\* what one step may do to a storage node around its registration
RegisterStep(b) ==
  /\ (bpc[b] = "starting" /\ bpc'[b] # "starting")
       => \/ /\ bpc'[b] = "serving"
             /\ regpc # "dead"
             /\ regq' = Append(regq, register_message(b, bregion[b], bspec[b]))
          \/ /\ bpc'[b] = "exited"
             /\ regpc = "dead"
             /\ regq' = regq
  /\ bpc[b] = "exited" => bpc'[b] = "exited"
  /\ bpc[b] \in {"starting", "exited"} => blog'[b] = blog[b]

\* C13: a storage node starts serving only in the step in which its register
\* command reaches the registry; when the registry cannot be reached the node
\* exits, and a node that exited never serves a client and never registers
\* again.
C13_RegisterBeforeServing == [][\A b \in Buckets : RegisterStep(b)]_vars

\* C13 witness: one node exited on a failed registration while another,
\* registered, has served a client
C13_Witness ==
  \E b \in Buckets, c \in Buckets :
    /\ bpc[b] = "exited"
    /\ blog[b] = <<>>
    /\ bpc[c] \in {"serving", "updating"}
    /\ blog[c] # <<>>

\* ------------------------------------------------- the manager's cache
CacheIds(o) == {mcache[o][i] : i \in 1 .. Len(mcache[o])}

CachedSpec(o, b) == mhandles[o][b][1].spec

\* one handle per id in the cache
OneHandlePerId(o) ==
  /\ \A i \in 1 .. Len(mcache[o]), j \in 1 .. Len(mcache[o]) :
       mcache[o][i] = mcache[o][j] => i = j
  /\ \A b \in CacheIds(o) : mhandles[o][b] # <<>> /\ mhandles[o][b][1].id = b

\* what one step does to the cache of observer o: the callback it makes on
\* o, if any, has the effect the claim gives it, and nothing else changes the
\* cached ids or specs
CacheStep(o) ==
  LET ids == CacheIds(o)
      ids2 == {mcache'[o][i] : i \in 1 .. Len(mcache'[o])}
      spec2(b) == mhandles'[o][b][1].spec
      kept(others) == \A b \in others : spec2(b) = CachedSpec(o, b)
  IN IF /\ Len(regcalls') = Len(regcalls) + 1
        /\ regcalls'[Len(regcalls')].observer = o
     THEN LET c == regcalls'[Len(regcalls')].call IN
          CASE c.event = "registered" ->
                 /\ ids2 = ids \cup {c.arg[1].id}
                 /\ spec2(c.arg[1].id) = c.arg[1].spec
                 /\ kept(ids \ {c.arg[1].id})
            [] c.event = "unregistered" ->
                 /\ ids2 = ids \ {c.arg[1]}
                 /\ kept(ids2)
                 /\ c.arg[1] \notin ids => mcache'[o] = mcache[o]
            [] c.event = "updated" ->
                 /\ ids2 = ids
                 /\ c.arg[1] \in ids => spec2(c.arg[1]) = c.arg[2]
                 /\ kept(ids \ {c.arg[1]})
            [] OTHER -> FALSE
     ELSE ids2 = ids /\ kept(ids)

\* C14: the cache of a manager always holds one handle per id; a registered
\* callback adds the id with the spec of the event, an unregistered callback
\* removes the id (and changes nothing when the id is not cached), an updated
\* callback sets the spec of the id's handle, and no other step changes the
\* cached ids or their specs: the cache holds exactly the ids registered and
\* not unregistered since, each with the spec of its latest registered or
\* updated event.
C14_CacheFollowsCallbacks ==
  /\ [](\A o \in Managers : OneHandlePerId(o))
  /\ [][\A o \in Managers : CacheStep(o)]_vars

\* C14 witness: a manager was told of two nodes, then of an update and of the
\* unregistration of the first one
C14_Witness ==
  \E o \in Managers :
    /\ CacheIds(o) = {"b2"}
    /\ mhandles[o]["b1"] # <<>>
    /\ mhandles[o]["b1"][1].spec = LowSpec(1)
    /\ regpc = "accept"

\* ------------------------------------------- one connection at a time
\* thread k is about to put its file on storage node b
PutsTo(k, b) ==
  \/ thr[k].pc = "put_main" /\ thr[k].main = <<b>>
  \/ thr[k].pc = "put_backup" /\ thr[k].backup = <<b>>

\* what one step does at storage node b: when a handler thread's PUT is
\* served the node is not busy with another request, the PUT is admitted
\* exactly when it fits the available_space the completed requests left, and
\* that space shrinks by the size of an admitted PUT; nothing else changes
\* the spec
OneRequestStep(b) ==
  /\ \A k \in 1 .. MaxRequests :
       (PutsTo(k, b) /\ thr'[k] # thr[k] /\ Listening(b))
         => /\ bpc[b] = "serving"
            /\ \A c \in Buckets \ {b} : bspec'[c] = bspec[c] /\ bfiles'[c] = bfiles[c]
            /\ IF thr[k].content[1].len <= bspec[b].available_space
               THEN /\ thr'[k].error = ""
                    /\ bspec'[b].available_space
                         = bspec[b].available_space - thr[k].content[1].len
               ELSE /\ thr'[k].error = "RuntimeError"
                    /\ bspec'[b] = bspec[b]
                    /\ bfiles'[b] = bfiles[b]
  /\ bspec'[b] # bspec[b] => \E k \in 1 .. MaxRequests : PutsTo(k, b) /\ thr'[k] # thr[k]

\* C18: a storage node serves one connection at a time: every PUT of the
\* concurrent handler threads is checked against, and taken off, the
\* available_space left by the requests completed before it, which never
\* becomes negative.
C18_OneConnectionAtATime ==
  /\ [](\A b \in Buckets : bspec[b].available_space >= 0)
  /\ [][\A b \in Buckets : OneRequestStep(b)]_vars

\* C18 witness: two handler threads put on the same node, which admitted the
\* first and rejected the second
C18_Witness ==
  \E j \in 1 .. MaxRequests, k \in 1 .. MaxRequests :
    /\ j # k
    /\ thr[j].handler = "upload" /\ thr[k].handler = "upload"
    /\ thr[j].main # <<>> /\ thr[j].main = thr[k].main
    /\ thr[j].backup = <<>> /\ thr[k].backup = <<>>
    /\ k \notin conn[j].prior /\ j \notin conn[k].prior
    /\ thr[j].pc = "done" /\ thr[j].response[1].status = "OK"
    /\ thr[k].pc = "done" /\ thr[k].error = "RuntimeError"

\* a command's client connection is closed and its update not yet pushed
ClosedBeforeUpdate(b) == bpc[b] = "updating"

\* C19: for each handled command the storage node pushes its update before
\* it closes the client connection of the command: there is no state in which
\* that connection is closed and the update is still to be pushed.
C19_UpdateBeforeClose == \A b \in Buckets : ~ClosedBeforeUpdate(b)

\* ------------------------------------------------------------ downloads
\* the names the manager's handle of storage node b tracks
TrackedNames(b) ==
  {mhandles[MGR][b][1].files[i] : i \in 1 .. Len(mhandles[MGR][b][1].files)}

\* the first id of the snapshot whose handle tracks f, <<>> if there is none
FirstTracking(ids, f) ==
  LET at == {i \in 1 .. Len(ids) : f \in TrackedNames(ids[i])}
  IN IF at = {} THEN <<>>
     ELSE <<ids[CHOOSE i \in at : \A j \in at : i <= j]>>

IsResponse(t, status, content_type) ==
  /\ t.pc = "respond"
  /\ t.response # <<>>
  /\ t.response[1].status = status
  /\ t.response[1].content_type = content_type

\* what one step of the download of connection k does
DownloadStep(k) ==
  /\ (/\ thr[k].pc = "call" /\ thr[k].handler = "download"
      /\ thr'[k] # thr[k] /\ thr'[k].pc # "raised")
       => LET first == FirstTracking(thr[k].buckets, thr'[k].filename)
          IN IF first = <<>>
             THEN /\ IsResponse(thr'[k], "NOT_FOUND", "no-content")
                  /\ thr'[k].main = <<>>
                  /\ UNCHANGED bucketvars
             ELSE /\ thr'[k].pc = "get"
                  /\ thr'[k].main = first
  /\ (thr[k].pc = "get" /\ thr'[k] # thr[k])
       => LET b == thr[k].main[1]
              f == thr[k].filename
          IN IF ~Listening(b)
             THEN IsResponse(thr'[k], "ERROR", "text/plain")
             ELSE IF exists(bfiles[b], f)
                  THEN /\ IsResponse(thr'[k], "OK", "application/bytes")
                       /\ thr'[k].response[1].data = <<receive(bfiles[b][f][1])>>
                  ELSE IsResponse(thr'[k], "NOT_FOUND", "no-content")

\* C15: a download selects the first bucket of the cache snapshot whose
\* handle tracks the name; when no handle tracks it the response is NOT_FOUND
\* with no-content and no storage node is touched; when the selected node
\* answers NOT_FOUND the response is NOT_FOUND; when the node holds the file
\* the response is OK with its bytes; when the node cannot be reached the
\* response is ERROR.
C15_DownloadSelection == [][\A k \in 1 .. MaxRequests : DownloadStep(k)]_vars

\* C15 witness: the first tracking node was selected and answered NOT_FOUND,
\* an outside client having deleted the file
C15_Witness ==
  \E k \in 1 .. MaxRequests :
    /\ thr[k].handler = "download"
    /\ thr[k].pc = "done"
    /\ thr[k].main # <<>>
    /\ thr[k].main = FirstTracking(thr[k].buckets, thr[k].filename)
    /\ Cardinality({b \in Buckets : thr[k].filename \in TrackedNames(b)}) = 2
    /\ thr[k].response[1].status = "NOT_FOUND"

\* ------------------------------------------------- tracked filenames
\* thread k's request to storage node b, in this step, is answered OK
PutAnsweredOK(k, b) ==
  /\ PutsTo(k, b)
  /\ thr'[k] # thr[k]
  /\ Listening(b)
  /\ handle_put(bfiles[b], bspec[b], <<thr[k].filename>>, thr[k].content[1]).status = "OK"

GetAnsweredOK(k, b) ==
  /\ thr[k].pc = "get"
  /\ thr[k].main = <<b>>
  /\ thr'[k] # thr[k]
  /\ Listening(b)
  /\ handle_get(bfiles[b], bspec[b], <<thr[k].filename>>).status = "OK"

\* the list of names a handle tracks changes only by the name of a put or a
\* get that the node answers OK in the same step
TrackStep(b) ==
  mhandles'[MGR][b][1].files # mhandles[MGR][b][1].files
    => \E k \in 1 .. MaxRequests :
         /\ PutAnsweredOK(k, b) \/ GetAnsweredOK(k, b)
         /\ mhandles'[MGR][b][1].files
              = Append(mhandles[MGR][b][1].files, thr[k].filename)

\* C16: a handle's tracked names start empty and a name is added only by a
\* put or a get of that name by the manager that the node answered OK: a put
\* answered INSUFFICIENT_SPACE, a get answered NOT_FOUND and a failed
\* connection add nothing.
C16_TrackedOnlyOnOK ==
  /\ [](\A b \in Buckets : nreq = 0 => TrackedNames(b) = {})
  /\ [][\A b \in Buckets : TrackStep(b)]_vars

\* C16 witness: an upload whose put on the primary was answered OK and whose
\* put on the backup was rejected: only the primary's handle tracks the name
C16_Witness ==
  \E k \in 1 .. MaxRequests :
    /\ thr[k].handler = "upload"
    /\ thr[k].pc = "done"
    /\ thr[k].error = "RuntimeError"
    /\ thr[k].backup # <<>>
    /\ thr[k].filename \in TrackedNames(thr[k].main[1])
    /\ thr[k].filename \notin TrackedNames(thr[k].backup[1])
    /\ Listening(thr[k].backup[1])

\* ------------------------------------------------------------ responses
UploadResponses ==
  {Response("OK", "no-content", <<>>), Response("ERROR", "no-content", <<>>)}

\* the responses of a download, whatever the file's bytes
IsDownloadResponse(r) ==
  \/ r.status = "OK" /\ r.content_type = "application/bytes" /\ r.data # <<>>
  \/ r = Response("NOT_FOUND", "no-content", <<>>)
  \/ r = Response("ERROR", "text/plain", <<[data |-> "Unknown error", len |-> 13]>>)

\* C17: every response of the manager has status OK, ERROR or NOT_FOUND. An
\* upload responds OK with no-content when nothing failed and ERROR with
\* no-content otherwise; a download responds OK with application/bytes,
\* NOT_FOUND with no-content or ERROR with text/plain and the fixed text
\* "Unknown error"; what is sent on the connection is that response.
C17_ResponseStatuses ==
  \A k \in 1 .. MaxRequests :
    /\ thr[k].response # <<>> =>
         LET r == thr[k].response[1] IN
         /\ r.status \in {"OK", "ERROR", "NOT_FOUND"}
         /\ thr[k].handler = "upload" =>
              /\ r \in UploadResponses
              /\ (r.status = "OK") <=> (thr[k].error = "")
         /\ thr[k].handler = "download" => IsDownloadResponse(r)
    /\ conn[k].sent # <<>> =>
         /\ thr[k].response # <<>>
         /\ conn[k].sent = send(thr[k].response[1])
         /\ conn[k].sent[1] \in {send_chunk("OK"), send_chunk("ERROR"),
                                 send_chunk("NOT_FOUND")}

\* C17 witness: a download failed on a node that had left run() and the
\* client was sent ERROR, text/plain and the fixed text
C17_Witness ==
  \E k \in 1 .. MaxRequests :
    /\ thr[k].handler = "download"
    /\ thr[k].error = "ConnectionError"
    /\ conn[k].sent = <<send_chunk("ERROR"), send_chunk("text/plain"),
                        [data |-> "Unknown error", len |-> 13]>>

\* ------------------------------------------- failure of the backup put
\* an outside client deleted f from storage node b
DeletedOutside(b, f) == \E i \in 1 .. Len(blog[b]) : DeleteOK(blog[b][i], f)

\* what the step in which the put on the backup fails does, and what the
\* thread does afterwards
BackupFailStep(k) ==
  /\ (thr[k].pc = "put_backup" /\ thr'[k] # thr[k] /\ thr'[k].error # "")
       => LET m == thr[k].main[1]
              f == thr[k].filename
          IN /\ IsResponse(thr'[k], "ERROR", "no-content")
             /\ bfiles' = bfiles
             /\ bspec' = bspec
             /\ exists(bfiles'[m], f) \/ DeletedOutside(m, f)
             /\ \E i \in 1 .. Len(mhandles'[MGR][m][1].files) :
                  mhandles'[MGR][m][1].files[i] = f
  /\ (thr[k].pc = "respond" /\ thr'[k] # thr[k])
       => /\ thr'[k].pc = "done"
          /\ conn'[k].sent = send(thr[k].response[1])
          /\ UNCHANGED <<bucketvars, cachevars>>
  /\ thr[k].pc = "done" => thr'[k] = thr[k]

\* C20: when the put on the primary was answered OK and the put on the
\* backup fails, by rejection or because the node cannot be reached, the
\* step changes no storage node (no DELETE on the primary, no other node
\* tried), the file is still on the primary unless an outside client deleted
\* it, the primary's handle tracks the name, and the thread only sends ERROR
\* and ends.
C20_NoRollback == [][\A k \in 1 .. MaxRequests : BackupFailStep(k)]_vars

\* C20 witness: the backup could not be reached after the primary stored the
\* file, and the client was sent ERROR
C20_Witness ==
  \E k \in 1 .. MaxRequests :
    /\ thr[k].handler = "upload"
    /\ thr[k].pc = "done"
    /\ thr[k].error = "ConnectionError"
    /\ thr[k].backup # <<>>
    /\ ~Listening(thr[k].backup[1])
    /\ Listening(thr[k].main[1])
    /\ Holds(thr[k].main[1], thr[k].filename)
    /\ thr[k].filename \in TrackedNames(thr[k].main[1])
    /\ ~exists(bfiles[thr[k].backup[1]], thr[k].filename)
    /\ conn[k].sent = send(Response("ERROR", "no-content", <<>>))

\* ------------------------------------------- the order of the two puts
\* the put of thread k on storage node b is served in this step and admitted
Admitted(k, b) ==
  /\ Listening(b)
  /\ bpc[b] = "serving"
  /\ handle_put(bfiles[b], bspec[b], <<thr[k].filename>>, thr[k].content[1]).status = "OK"
  /\ bfiles'[b][thr[k].filename] = thr[k].content

Untouched(b) == bfiles'[b] = bfiles[b] /\ bspec'[b] = bspec[b] /\ bpc'[b] = bpc[b]

\* what one step of the upload of connection k does to the order of its puts
PrimaryFirstStep(k) ==
  /\ (thr'[k].pc = "put_backup" /\ thr[k].pc # "put_backup")
       => /\ thr[k].pc = "put_main"
          /\ thr'[k].error = ""
          /\ Admitted(k, thr[k].main[1])
          /\ thr[k].backup # thr[k].main
          /\ Untouched(thr[k].backup[1])
  /\ (thr[k].pc = "put_main" /\ thr'[k] # thr[k] /\ thr'[k].error # "")
       => /\ thr'[k].pc = "respond"
          /\ thr[k].backup # <<>> => Untouched(thr[k].backup[1])
  /\ (thr[k].handler = "upload" /\ thr[k].pc \notin {"put_main", "put_backup"}
        /\ thr'[k] # thr[k])
       => /\ bfiles' = bfiles
          /\ bspec' = bspec
          /\ bpc' = bpc
  /\ thr[k].pc \in {"respond", "done"} => thr'[k].pc \in {"respond", "done"}

\* C21: within one upload the put on the backup is started only in a later
\* step than the one in which the primary admitted the file; when the put on
\* the primary fails the thread goes on to its response without touching the
\* backup, and a thread that is responding or has ended puts nothing more.
C21_PrimaryBeforeBackup == [][\A k \in 1 .. MaxRequests : PrimaryFirstStep(k)]_vars

\* C21 witness: an upload with a backup selected whose put on the primary
\* failed; the backup, which is running, does not hold the file
C21_Witness ==
  \E k \in 1 .. MaxRequests :
    /\ thr[k].handler = "upload"
    /\ thr[k].pc = "done"
    /\ thr[k].backup # <<>>
    /\ thr[k].error \in {"RuntimeError", "ConnectionError"}
    /\ thr[k].filename \notin TrackedNames(thr[k].main[1])
    /\ ~exists(bfiles[thr[k].main[1]], thr[k].filename)
    /\ bpc[thr[k].backup[1]] = "serving"
    /\ blog[thr[k].backup[1]] = <<>>
    /\ ~exists(bfiles[thr[k].backup[1]], thr[k].filename)

\* ------------------------------------------------ uploads without a backup
\* the backup selection of the upload ran and found no known bucket other
\* than the primary with cached room for the payload
NoOtherRoom(t) ==
  /\ t.handler = "upload"
  /\ t.pc \in {"put_main", "put_backup", "respond", "done"}
  /\ t.main # <<>>
  /\ t.seen_backup \ {t.main[1]} = {}

\* what the backup selection and the put of such an upload do
PrimaryOnlyStep(k) ==
  /\ (/\ thr[k].pc = "select_backup" /\ thr'[k] # thr[k]
      /\ Roomy(thr[k].buckets, thr[k].content[1].len) \ {thr[k].main[1]} = {})
       => /\ thr'[k].pc = "put_main"
          /\ thr'[k].backup = <<>>
          /\ thr'[k].main = thr[k].main
          /\ UNCHANGED bucketvars
  /\ (NoOtherRoom(thr[k]) /\ thr[k].pc = "put_main" /\ thr'[k] # thr[k])
       => LET m == thr[k].main[1]
              f == thr[k].filename
              put == handle_put(bfiles[m], bspec[m], <<f>>, thr[k].content[1])
          IN /\ \A c \in Buckets \ {m} : Untouched(c)
             /\ IF Listening(m) /\ put.status = "OK"
                THEN /\ IsResponse(thr'[k], "OK", "no-content")
                     /\ bfiles'[m][f] = thr[k].content
                ELSE /\ IsResponse(thr'[k], "ERROR", "no-content")
                     /\ bfiles'[m] = bfiles[m]

\* C22: when a primary is selected and no other known bucket has cached room
\* for the payload (there may be no other known bucket at all), no backup is
\* selected, the upload puts the file on the primary and on no other node,
\* and it responds OK when that put is answered OK.
C22_PrimaryOnly ==
  /\ [](\A k \in 1 .. MaxRequests :
          NoOtherRoom(thr[k]) => (thr[k].backup = <<>> /\ thr[k].pc # "put_backup"))
  /\ [][\A k \in 1 .. MaxRequests : PrimaryOnlyStep(k)]_vars

\* C22 witness: an upload accepted while one bucket was known ended with
\* status OK and the file on that bucket only
C22_Witness ==
  \E k \in 1 .. MaxRequests :
    /\ UploadOK(thr[k])
    /\ thr[k].pc = "done"
    /\ Len(thr[k].buckets) = 1
    /\ thr[k].backup = <<>>
    /\ Holds(thr[k].main[1], thr[k].filename)
    /\ \A c \in Buckets \ {thr[k].main[1]} : ~exists(bfiles[c], thr[k].filename)
    /\ conn[k].sent = send(Response("OK", "no-content", <<>>))

\* ------------------------------------------------------ the accept loop
\* the handler thread of connection k has started and not ended
Running(k) == thr[k].pc \in {"call", "select_backup", "put_main", "put_backup", "get", "respond"}

\* C23: the accept loop of the manager does not wait for handler threads:
\* whatever the threads it started are doing, it can accept the next
\* connection and start that connection's handler.
C23_AcceptDoesNotWait == (nreq < MaxRequests) => ENABLED ManagerAccept

\* C23 witness: the second connection was accepted, and its handler started,
\* while the first handler was waiting for a storage node busy with its update
C23_Witness ==
  /\ Running(1)
  /\ Running(2)
  /\ conn[1].state = "open"
  /\ conn[2].state = "open"
  /\ 1 \notin conn[2].prior
  /\ \E b \in Buckets : PutsTo(1, b) /\ bpc[b] = "updating"
  /\ thr[2].pc \in {"put_backup", "respond"}

\* ---------------------------------------------------- spec propagation
\* every subscribed manager that holds a handle for b has cached b's spec
Propagated(b) ==
  \A o \in Managers :
    (Subscribed(observers, o) /\ InCache(mcache[o], b))
      => mhandles[o][b][1].spec = bspec[b]

\* C24: unless the registry stops (a registry that left listen() does not
\* come back), the spec a registered storage node has after its last command
\* eventually is, and remains, the cached spec of its handle in every
\* subscribed manager; the updates of a node reach the managers in the order
\* the node sent them, the last one last.
C24_SpecPropagation ==
  <>[](regpc # "dead" => \A b \in Buckets : Propagated(b))

\* C24 witness: a node served two commands, the second a PUT, and both
\* managers hold its handle with the spec the PUT left
C24_Witness ==
  \E b \in Buckets :
    /\ Len(blog[b]) = 2
    /\ PutOK(blog[b][2], "report.txt")
    /\ bpc[b] = "serving"
    /\ regq = <<>>
    /\ regpc = "accept"
    /\ \A o \in Managers : Subscribed(observers, o) /\ InCache(mcache[o], b)
    /\ Propagated(b)

\* ------------------------------------------------- capacity of a node
\* available_space plus the size of the files in the node's directory
Capacity(b) == bspec[b].available_space + get_directory_size(bfiles[b])

\* C25: every command a storage node serves leaves available_space plus the
\* total size of the files in its directory as it was, so that a node that
\* started with an empty directory and 250,000,000 bytes keeps that sum,
\* whatever PUTs (of new or of existing names) and DELETEs it serves.
C25_CapacityConserved == [][\A b \in Buckets : Capacity(b)' = Capacity(b)]_vars


\* C26: in every state of a storage node, whatever commands its clients have
\* sent, 0 <= available_space <= 250,000,000.
C26_SpaceWithinBounds ==
  \A b \in Buckets :
    /\ 0 <= bspec[b].available_space
    /\ bspec[b].available_space <= DEFAULT_SPACE


\* ------------------------------------------------- the context snapshot
\* the ids of the handles in the context of connection k
Candidates(k) == {thr[k].buckets[i] : i \in 1 .. Len(thr[k].buckets)}

\* what one step does to the context of connection k and to the nodes
SnapshotStep(k) ==
  /\ (thr[k].pc = "none" /\ thr'[k].pc # "none") => thr'[k].buckets = mcache[MGR]
  /\ thr[k].pc # "none" => thr'[k].buckets = thr[k].buckets
  /\ (thr[k].pc \in {"put_main", "put_backup", "get"} /\ thr'[k] # thr[k])
       => \A c \in Buckets \ Candidates(k) : Untouched(c)

\* C27: the context of a handler holds the handles that were in the manager's
\* cache when its command was accepted and never changes afterwards, whatever
\* registered and unregistered events arrive; the primary and the backup are
\* always taken from it, and the handler's puts and gets touch no other node.
C27_ContextSnapshot ==
  /\ [](\A k \in 1 .. MaxRequests :
          /\ thr[k].main # <<>> => thr[k].main[1] \in Candidates(k)
          /\ thr[k].backup # <<>> => thr[k].backup[1] \in Candidates(k))
  /\ [][\A k \in 1 .. MaxRequests : SnapshotStep(k)]_vars

\* C27 witness: an upload accepted when only b1 was cached ended with the
\* file on b1 and no backup, although b2, with room, was registered and b1
\* unregistered while its handler ran
C27_Witness ==
  \E k \in 1 .. MaxRequests :
    /\ UploadOK(thr[k])
    /\ thr[k].pc = "done"
    /\ conn[k].prior = {}
    /\ thr[k].buckets = <<"b1">>
    /\ thr[k].main = <<"b1">>
    /\ thr[k].backup = <<>>
    /\ mcache[MGR] = <<"b2">>
    /\ thr[k].seen_main = {"b1"}
    /\ mhandles[MGR]["b2"][1].spec.available_space >= thr[k].content[1].len
    /\ ~exists(bfiles["b2"], thr[k].filename)

=============================================================================
